---- MODULE Spec2Model ----
(***************************************************************************)
(* Model of the escrow contract of src/src/contract.rs: the three entry    *)
(* points instantiate, execute (Approve / Refund) and query (Arbiter),     *)
(* the stored State record, and the host around them (block height and     *)
(* time, the bank balance of the contract account, the dispatch of the     *)
(* BankMsg::Send messages a successful call returns).                      *)
(***************************************************************************)
EXTENDS Integers, Sequences, FiniteSets, TLC

\* ------------------------------------------------------------------ bounds
MaxHeight == 2
MaxTime == 1
MaxAmount == 2
MaxCoins == 1

\* ------------------------------------------------------------- data types
\* Option<T>: None is the empty set, Some(x) the singleton.
None == {}
Some(x) == {x}
Unwrap(o) == CHOOSE x \in o : TRUE

\* Well-formed account identities (Addr), and one string addr_validate rejects.
Addrs == {"verifies", "benefits", "creator"}
BadAddr == ""
AddrStrings == Addrs \cup {BadAddr}

Heights == 0..MaxHeight
Times == 0..MaxTime
Envs == [height : Heights, time : Times]
OptHeights == {None} \cup {Some(h) : h \in Heights}
OptTimes == {None} \cup {Some(t) : t \in Times}

\* Coin { denom, amount }, Vec<Coin>, and the bank balance of the contract.
DenomOrder == <<"earth">>
Denoms == {DenomOrder[i] : i \in 1..Len(DenomOrder)}
Coin == [denom : Denoms, amount : 0..MaxAmount]
CoinVecs == UNION {[1..n -> Coin] : n \in 0..MaxCoins}
Quantities == {None} \cup {Some(v) : v \in CoinVecs}
Balances == [Denoms -> 0..MaxAmount]
NoFunds == [d \in Denoms |-> 0]

\* ContractError (src/src/error.rs)
NoError == [kind |-> "None"]
Std(m) == [kind |-> "Std", msg |-> m]
Unauthorized == [kind |-> "Unauthorized"]
Expired(eh, et) == [kind |-> "Expired", end_height |-> eh, end_time |-> et]
NotExpired(eh, et) == [kind |-> "NotExpired", end_height |-> eh, end_time |-> et]

\* Result<Response, ContractError>
Ok(msgs, attrs) == [ok |-> TRUE, err |-> NoError, messages |-> msgs, attributes |-> attrs]
Err(e) == [ok |-> FALSE, err |-> e, messages |-> <<>>, attributes |-> <<>>]

\* BankMsg::Send { to_address, amount }
Send(to, amount) == [to_address |-> to, amount |-> amount]

\* ExecuteMsg / InstantiateMsg
Approve(q) == [type |-> "Approve", quantity |-> q]
Refund == [type |-> "Refund"]
ExecuteMsgs == {Approve(q) : q \in Quantities} \cup {Refund}
InstantiateMsgs == [arbiter : AddrStrings, recipient : AddrStrings,
                    end_height : OptHeights, end_time : OptTimes]

\* --------------------------------------------------------- collaborators
\* deps.api.addr_validate: the Addr, or a StdError for a malformed string.
addr_validate(s) == s \in Addrs

\* Variant: a bound counts only once it is passed.
is_expired_Strict(state, env) ==
    \/ \E h \in state.end_height : env.height > h
    \/ \E t \in state.end_time : env.time > t

\* State::is_expired(&env)
is_expired(state, env) ==
    \/ \E h \in state.end_height : env.height >= h
    \/ \E t \in state.end_time : env.time >= t

\* deps.querier.query_all_balances(contract): the coins held, zero amounts left out.
RECURSIVE coins_from(_, _)
coins_from(bal, i) ==
    IF i > Len(DenomOrder) THEN <<>>
    ELSE LET d == DenomOrder[i]
             rest == coins_from(bal, i + 1)
         IN IF bal[d] > 0 THEN <<[denom |-> d, amount |-> bal[d]]>> \o rest ELSE rest
query_all_balances(bal) == coins_from(bal, 1)

\* config(storage).load()
load(storage) == IF storage = None THEN Err(Std("NotFound")) ELSE Ok(<<>>, <<>>)

\* ------------------------------------------------------------ entry points
\* Variant: the record is saved before the expiry check.
instantiate_SaveFirst(storage, env, info, msg) ==
    IF ~addr_validate(msg.arbiter) \/ ~addr_validate(msg.recipient)
    THEN [res |-> Err(Std("InvalidAddress")), storage |-> storage]
    ELSE LET state == [arbiter |-> msg.arbiter,
                       recipient |-> msg.recipient,
                       source |-> info.sender,
                       end_height |-> msg.end_height,
                       end_time |-> msg.end_time]
         IN IF is_expired(state, env)
            THEN [res |-> Err(Expired(msg.end_height, msg.end_time)),
                  storage |-> Some(state)]
            ELSE [res |-> Ok(<<>>, <<>>), storage |-> Some(state)]

\* Variant: the arbiter is recorded as the source.
instantiate_SourceArbiter(storage, env, info, msg) ==
    IF ~addr_validate(msg.arbiter) \/ ~addr_validate(msg.recipient)
    THEN [res |-> Err(Std("InvalidAddress")), storage |-> storage]
    ELSE LET state == [arbiter |-> msg.arbiter,
                       recipient |-> msg.recipient,
                       source |-> msg.arbiter,
                       end_height |-> msg.end_height,
                       end_time |-> msg.end_time]
         IN IF is_expired(state, env)
            THEN [res |-> Err(Expired(msg.end_height, msg.end_time)), storage |-> storage]
            ELSE [res |-> Ok(<<>>, <<>>), storage |-> Some(state)]

instantiate(storage, env, info, msg) ==
    IF ~addr_validate(msg.arbiter) \/ ~addr_validate(msg.recipient)
    THEN [res |-> Err(Std("InvalidAddress")), storage |-> storage]
    ELSE LET state == [arbiter |-> msg.arbiter,
                       recipient |-> msg.recipient,
                       source |-> info.sender,
                       end_height |-> msg.end_height,
                       end_time |-> msg.end_time]
         IN IF is_expired(state, env)
            THEN [res |-> Err(Expired(msg.end_height, msg.end_time)), storage |-> storage]
            ELSE [res |-> Ok(<<>>, <<>>), storage |-> Some(state)]

\* Variant: no authorization check.
try_approve_NoAuth(bal, env, info, state, quantity) ==
    IF is_expired(state, env)
    THEN Err(Expired(state.end_height, state.end_time))
    ELSE LET amount == IF quantity # None THEN Unwrap(quantity)
                       ELSE query_all_balances(bal)
         IN Ok(<<Send(state.recipient, amount)>>, <<<<"Approved", "amount">>>>)

\* Variant: authorization checked before expiry.
try_approve_AuthFirst(bal, env, info, state, quantity) ==
    IF info.sender # state.arbiter
    THEN Err(Unauthorized)
    ELSE IF is_expired(state, env)
    THEN Err(Expired(state.end_height, state.end_time))
    ELSE LET amount == IF quantity # None THEN Unwrap(quantity)
                       ELSE query_all_balances(bal)
         IN Ok(<<Send(state.recipient, amount)>>, <<<<"Approved", "amount">>>>)

\* Variant: the requested quantity is ignored, the whole balance is sent.
try_approve_IgnoreQuantity(bal, env, info, state, quantity) ==
    IF is_expired(state, env)
    THEN Err(Expired(state.end_height, state.end_time))
    ELSE IF info.sender # state.arbiter
    THEN Err(Unauthorized)
    ELSE Ok(<<Send(state.recipient, query_all_balances(bal))>>,
            <<<<"Approved", "amount">>>>)

\* Variant: the funds go to the caller.
try_approve_ToSender(bal, env, info, state, quantity) ==
    IF is_expired(state, env)
    THEN Err(Expired(state.end_height, state.end_time))
    ELSE IF info.sender # state.arbiter
    THEN Err(Unauthorized)
    ELSE LET amount == IF quantity # None THEN Unwrap(quantity)
                       ELSE query_all_balances(bal)
         IN Ok(<<Send(info.sender, amount)>>, <<<<"Approved", "amount">>>>)

\* Variant: no expiry check.
try_approve_NoExpiry(bal, env, info, state, quantity) ==
    IF info.sender # state.arbiter
    THEN Err(Unauthorized)
    ELSE LET amount == IF quantity # None THEN Unwrap(quantity)
                       ELSE query_all_balances(bal)
         IN Ok(<<Send(state.recipient, amount)>>, <<<<"Approved", "amount">>>>)

\* Variant: a release of an empty account is refused.
try_approve_Settled(bal, env, info, state, quantity) ==
    IF is_expired(state, env)
    THEN Err(Expired(state.end_height, state.end_time))
    ELSE IF info.sender # state.arbiter
    THEN Err(Unauthorized)
    ELSE IF query_all_balances(bal) = <<>>
    THEN Err(Std("Settled"))
    ELSE LET amount == IF quantity # None THEN Unwrap(quantity)
                       ELSE query_all_balances(bal)
         IN Ok(<<Send(state.recipient, amount)>>, <<<<"Approved", "amount">>>>)

try_approve(bal, env, info, state, quantity) ==
    IF is_expired(state, env)
    THEN Err(Expired(state.end_height, state.end_time))
    ELSE IF info.sender # state.arbiter
    THEN Err(Unauthorized)
    ELSE LET amount == IF quantity # None THEN Unwrap(quantity)
                       ELSE query_all_balances(bal)
         IN Ok(<<Send(state.recipient, amount)>>, <<<<"Approved", "amount">>>>)

\* Variant: expiry checked before authorization.
try_refund_ExpiryFirst(bal, info, env, state) ==
    IF ~is_expired(state, env)
    THEN Err(NotExpired(state.end_height, state.end_time))
    ELSE IF info.sender # state.arbiter
    THEN Err(Unauthorized)
    ELSE LET amount == query_all_balances(bal)
         IN Ok(<<Send(state.source, amount)>>, <<>>)

\* Variant: the refund goes to the recipient.
try_refund_ToRecipient(bal, info, env, state) ==
    IF info.sender # state.arbiter
    THEN Err(Unauthorized)
    ELSE IF ~is_expired(state, env)
    THEN Err(NotExpired(state.end_height, state.end_time))
    ELSE LET amount == query_all_balances(bal)
         IN Ok(<<Send(state.recipient, amount)>>, <<>>)

\* Variant: no expiry check.
try_refund_NoExpiry(bal, info, env, state) ==
    IF info.sender # state.arbiter
    THEN Err(Unauthorized)
    ELSE LET amount == query_all_balances(bal)
         IN Ok(<<Send(state.source, amount)>>, <<>>)

try_refund(bal, info, env, state) ==
    IF info.sender # state.arbiter
    THEN Err(Unauthorized)
    ELSE IF ~is_expired(state, env)
    THEN Err(NotExpired(state.end_height, state.end_time))
    ELSE LET amount == query_all_balances(bal)
         IN Ok(<<Send(state.source, amount)>>, <<>>)

\* Variant: a missing record is not an error, the call does nothing.
execute_MayLoad(storage, bal, env, info, msg) ==
    IF ~load(storage).ok THEN Ok(<<>>, <<>>)
    ELSE LET state == Unwrap(storage)
         IN IF msg.type = "Approve"
            THEN try_approve(bal, env, info, state, msg.quantity)
            ELSE try_refund(bal, info, env, state)

execute(storage, bal, env, info, msg) ==
    IF ~load(storage).ok THEN Err(load(storage).err)
    ELSE LET state == Unwrap(storage)
         IN IF msg.type = "Approve"
            THEN try_approve(bal, env, info, state, msg.quantity)
            ELSE try_refund(bal, info, env, state)

\* Variant: the recipient is returned.
query_arbiter_Recipient(storage) ==
    IF ~load(storage).ok THEN [ok |-> FALSE, err |-> load(storage).err, arbiter |-> None]
    ELSE [ok |-> TRUE, err |-> NoError, arbiter |-> Some(Unwrap(storage).recipient)]

\* StdResult<ArbiterResponse>
query_arbiter(storage) ==
    IF ~load(storage).ok THEN [ok |-> FALSE, err |-> load(storage).err, arbiter |-> None]
    ELSE [ok |-> TRUE, err |-> NoError, arbiter |-> Some(Unwrap(storage).arbiter)]

\* ------------------------------------------------------------------- host
\* Total of a Vec<Coin> in one denomination.
RECURSIVE amount_of(_, _)
amount_of(coins, d) ==
    IF coins = <<>> THEN 0
    ELSE (IF Head(coins).denom = d THEN Head(coins).amount ELSE 0)
         + amount_of(Tail(coins), d)

\* The bank module executing the messages of a response: each Send debits the
\* contract account; a Send the account cannot cover fails the transaction,
\* which then changes nothing.
RECURSIVE debit(_, _)
debit(bal, msgs) ==
    IF msgs = <<>> THEN Some(bal)
    ELSE LET amt == Head(msgs).amount
         IN IF \E d \in Denoms : amount_of(amt, d) > bal[d] THEN None
            ELSE debit([d \in Denoms |-> bal[d] - amount_of(amt, d)], Tail(msgs))

dispatch(bal, res) ==
    IF res.ok /\ debit(bal, res.messages) # None
    THEN Unwrap(debit(bal, res.messages))
    ELSE bal

\* ------------------------------------------------------------------ state
VARIABLES
    config,         \* the stored State: None before a successful instantiate
    balance,        \* bank balance of the contract account, per denomination
    now,            \* the block the host is at: env.block.height, env.block.time
    last,           \* the last call: entry point, env, info, msg, balance seen, result
    created,        \* history: msg and info of the instantiate that succeeded
    drained,        \* history: how the account was emptied, "no" while it was not
    expired_seen    \* history: some call has observed the record as expired

vars == <<config, balance, now, last, created, drained, expired_seen>>

\* The host delivers one call at a time: a call is taken only when the response
\* of the previous one has been handed back.
Idle == [op |-> "none"]

Init ==
    /\ config = None
    /\ balance = NoFunds
    /\ now = [height |-> 0, time |-> 0]
    /\ last = Idle
    /\ created = None
    /\ drained = "no"
    /\ expired_seen = FALSE

\* The host runs instantiate as the constructor of the instance, with the funds
\* of info.funds credited to the new account; a failed instantiate is reverted.
Instantiate ==
    /\ last = Idle
    /\ config = None
    /\ \E sender \in Addrs, msg \in InstantiateMsgs, funds \in Balances :
         LET env == now
             info == [sender |-> sender]
             r == instantiate(config, env, info, msg)
         IN /\ config' = r.storage
            /\ balance' = IF r.res.ok THEN funds ELSE balance
            /\ last' = [op |-> "instantiate", env |-> env, info |-> info, msg |-> msg,
                        storage |-> config, balance |-> balance, res |-> r.res]
            /\ created' = IF r.res.ok THEN Some([msg |-> msg, info |-> info])
                          ELSE created
    /\ UNCHANGED <<now, drained, expired_seen>>

\* History kept beside a call of execute: whether its transfer emptied the
\* account, and whether it observed the record as expired (an Approve that
\* failed with Expired, a Refund that succeeded).
Drained(msg, res, before, after, was) ==
    IF res.ok /\ before # NoFunds /\ after = NoFunds
    THEN (IF msg.type = "Approve" THEN "released" ELSE "refunded")
    ELSE was
ObservedExpiry(msg, res) ==
    \/ msg.type = "Approve" /\ res.err.kind = "Expired"
    \/ msg.type = "Refund" /\ res.ok

\* Variant: a successful Refund deletes the record.
Execute_RemoveOnRefund ==
    /\ last = Idle
    /\ \E sender \in Addrs, msg \in ExecuteMsgs :
         LET env == now
             info == [sender |-> sender]
             res == execute(config, balance, env, info, msg)
         IN /\ balance' = dispatch(balance, res)
            /\ last' = [op |-> "execute", env |-> env, info |-> info, msg |-> msg,
                        storage |-> config, balance |-> balance, res |-> res]
            /\ drained' = Drained(msg, res, balance, balance', drained)
            /\ expired_seen' = (expired_seen \/ ObservedExpiry(msg, res))
            /\ config' = IF res.ok /\ msg.type = "Refund" THEN None ELSE config
    /\ UNCHANGED <<now, created>>

\* execute, followed by the host's dispatch of the messages of the response.
Execute ==
    /\ last = Idle
    /\ \E sender \in Addrs, msg \in ExecuteMsgs :
         LET env == now
             info == [sender |-> sender]
             res == execute(config, balance, env, info, msg)
         IN /\ balance' = dispatch(balance, res)
            /\ last' = [op |-> "execute", env |-> env, info |-> info, msg |-> msg,
                        storage |-> config, balance |-> balance, res |-> res]
            /\ drained' = Drained(msg, res, balance, balance', drained)
            /\ expired_seen' = (expired_seen \/ ObservedExpiry(msg, res))
    /\ UNCHANGED <<config, now, created>>

Query ==
    /\ last = Idle
    /\ last' = [op |-> "query", storage |-> config, balance |-> balance,
                res |-> query_arbiter(config)]
    /\ UNCHANGED <<config, balance, now, created, drained, expired_seen>>

\* The response goes back to the caller.
Respond ==
    /\ last # Idle
    /\ last' = Idle
    /\ UNCHANGED <<config, balance, now, created, drained, expired_seen>>

\* Anyone may send coins to the contract account between calls.
Deposit ==
    /\ last = Idle
    /\ config # None
    /\ \E d \in Denoms :
         /\ balance[d] < MaxAmount
         /\ balance' = [balance EXCEPT ![d] = @ + 1]
    /\ drained' = "no"
    /\ UNCHANGED <<config, now, last, created, expired_seen>>

\* The block of the next call. The entry points take whatever env the host
\* hands them (the tests call at heights 200, 1100, 900, 988 in that order).
NewBlock ==
    /\ last = Idle
    /\ now' \in Envs \ {now}
    /\ UNCHANGED <<config, balance, last, created, drained, expired_seen>>

\* A chain's blocks: height and time never decrease.
Advance ==
    /\ last = Idle
    /\ now' \in Envs \ {now}
    /\ now'.height >= now.height
    /\ now'.time >= now.time
    /\ UNCHANGED <<config, balance, last, created, drained, expired_seen>>

Next == Instantiate \/ Execute \/ Query \/ Respond \/ Deposit \/ NewBlock

Spec == Init /\ [][Next]_vars

NextMono == Instantiate \/ Execute \/ Query \/ Respond \/ Deposit \/ Advance

SpecMono == Init /\ [][NextMono]_vars

\* ----------------------------------------------------------------- claims
\* The call recorded in last, and the record it loaded.
IsInstantiate == last.op = "instantiate"
IsExecute == last.op = "execute" /\ last.storage # None
IsApprove == IsExecute /\ last.msg.type = "Approve"
IsRefund == IsExecute /\ last.msg.type = "Refund"
Record == Unwrap(last.storage)
ByArbiter == last.info.sender = Record.arbiter
ExpiredAtCall == is_expired(Record, last.env)
Distinct3 ==
    /\ Record.arbiter # Record.recipient
    /\ Record.arbiter # Record.source
    /\ Record.recipient # Record.source

\* A Vec<Coin> that is exactly the balance bal: every denomination totals to
\* what the account holds.
IsFullBalance(coins, bal) == \A d \in Denoms : amount_of(coins, d) = bal[d]

\* The response carries exactly one transfer: coins to address to.
OneTransfer(res, to, coins) ==
    /\ res.ok
    /\ Len(res.messages) = 1
    /\ res.messages[1].to_address = to
    /\ res.messages[1].amount = coins

\* C1: a Refund by any caller, arbiter or not, on an expired record succeeds
\* and emits exactly one transfer of the full balance to source.
C1_RefundByAnyone ==
    (IsRefund /\ ExpiredAtCall) =>
        /\ last.res.ok
        /\ Len(last.res.messages) = 1
        /\ last.res.messages[1].to_address = Record.source
        /\ IsFullBalance(last.res.messages[1].amount, last.balance)

\* C2 as stated: an Approve by a caller that is not the arbiter fails with
\* Unauthorized, expired or not, for every quantity.
C2_NonArbiterUnauthorized ==
    (IsApprove /\ ~ByArbiter) => last.res = Err(Unauthorized)

\* C2 as amended: an Approve by a caller that is not the arbiter fails for
\* every quantity, with Unauthorized when the record is not expired and with
\* Expired carrying the record's bounds when it is.
C2_NonArbiterApproveFails ==
    (IsApprove /\ ~ByArbiter) =>
        last.res = IF ExpiredAtCall
                   THEN Err(Expired(Record.end_height, Record.end_time))
                   ELSE Err(Unauthorized)

C2_Witness ==
    /\ IsApprove /\ ~ByArbiter /\ ~ExpiredAtCall
    /\ last.msg.quantity # None
    /\ last.res.err = Unauthorized

\* C3: an Approve on an expired record fails with Expired carrying the
\* record's bounds and emits no transfer, for every caller and quantity.
C3_ApproveAfterExpiry ==
    (IsApprove /\ ExpiredAtCall) =>
        /\ ~last.res.ok
        /\ last.res.err = Expired(Record.end_height, Record.end_time)
        /\ last.res.messages = <<>>
        /\ balance = last.balance

C3_Witness ==
    /\ IsApprove /\ ExpiredAtCall /\ ~ByArbiter
    /\ last.msg.quantity # None
    /\ last.res.err.kind = "Expired"

\* C4: a Refund by any caller, arbiter or not, on a record that is not
\* expired fails with NotExpired carrying the record's bounds and emits no
\* transfer.
C4_RefundBeforeExpiry ==
    (IsRefund /\ ~ExpiredAtCall) =>
        /\ last.res = Err(NotExpired(Record.end_height, Record.end_time))
        /\ last.res.messages = <<>>

MsgBounds == [end_height |-> last.msg.end_height, end_time |-> last.msg.end_time]
MsgValid == addr_validate(last.msg.arbiter) /\ addr_validate(last.msg.recipient)

\* C6 as stated: an instantiate whose bounds are expired at the creation
\* height/time fails with Expired carrying them and persists no record; a
\* stored record is never expired at its creation height/time.
C6_ExpiredAtCreation ==
    IsInstantiate =>
        /\ is_expired(MsgBounds, last.env) =>
              /\ last.res = Err(Expired(last.msg.end_height, last.msg.end_time))
              /\ config = None
        /\ config # None => ~is_expired(Unwrap(config), last.env)

\* C6 as amended: an instantiate whose bounds are expired at the creation
\* height/time fails and persists no record, with Expired carrying the bounds
\* when arbiter and recipient are well-formed and with the address error when
\* one is not; a stored record is never expired at its creation height/time.
C6_NoPrematureCreation ==
    IsInstantiate =>
        /\ is_expired(MsgBounds, last.env) =>
              /\ last.res = IF MsgValid
                            THEN Err(Expired(last.msg.end_height, last.msg.end_time))
                            ELSE Err(Std("InvalidAddress"))
              /\ config = None
              /\ balance = last.balance
        /\ config # None => ~is_expired(Unwrap(config), last.env)

C6_Witness ==
    /\ IsInstantiate /\ MsgValid
    /\ last.msg.end_height # None /\ last.msg.end_time # None
    /\ last.env.height >= Unwrap(last.msg.end_height)
    /\ last.env.time < Unwrap(last.msg.end_time)
    /\ last.res.err.kind = "Expired"
    /\ config = None

\* C7: a successful Approve without a quantity transfers exactly the full
\* balance held at the call; with a quantity X it transfers exactly X, also
\* when X exceeds the balance or names a denomination the account lacks.
C7_ApproveAmount ==
    (IsApprove /\ last.res.ok) =>
        /\ Len(last.res.messages) = 1
        /\ IF last.msg.quantity = None
           THEN /\ IsFullBalance(last.res.messages[1].amount, last.balance)
                /\ \A i \in 1..Len(last.res.messages[1].amount) :
                      last.res.messages[1].amount[i].amount > 0
           ELSE last.res.messages[1].amount = Unwrap(last.msg.quantity)

C7_Witness ==
    /\ IsApprove /\ last.res.ok
    /\ last.msg.quantity # None
    /\ \E d \in Denoms :
         /\ last.balance[d] = 0
         /\ amount_of(Unwrap(last.msg.quantity), d) > 0
    /\ last.res.messages[1].amount = Unwrap(last.msg.quantity)

\* C8: a successful Refund emits exactly one transfer, of the full balance
\* held at the call, to the source of the record, not to the recipient or
\* the arbiter when they differ from source.
C8_RefundToSource ==
    (IsRefund /\ last.res.ok) =>
        /\ Len(last.res.messages) = 1
        /\ IsFullBalance(last.res.messages[1].amount, last.balance)
        /\ last.res.messages[1].to_address = Record.source
        /\ Record.recipient # Record.source =>
              last.res.messages[1].to_address # Record.recipient
        /\ Record.arbiter # Record.source =>
              last.res.messages[1].to_address # Record.arbiter

C8_Witness ==
    /\ IsRefund /\ last.res.ok /\ Distinct3
    /\ \A d \in Denoms : last.balance[d] > 0
    /\ last.res.messages[1].to_address = Record.source
    /\ balance = NoFunds

C10_RecordImmutable == [][config # None => config' = config]_vars

C10_Witness ==
    /\ IsRefund /\ last.res.ok
    /\ config = last.storage
    /\ balance # last.balance

C12_CreateStoresInputs ==
    IsInstantiate =>
        /\ (MsgValid /\ ~is_expired(MsgBounds, last.env)) => last.res.ok
        /\ last.res.ok =>
              /\ config = Some([arbiter |-> last.msg.arbiter,
                                recipient |-> last.msg.recipient,
                                source |-> last.info.sender,
                                end_height |-> last.msg.end_height,
                                end_time |-> last.msg.end_time])
              /\ last.res.messages = <<>>

C12_Witness ==
    /\ IsInstantiate /\ last.res.ok
    /\ last.msg.end_height # None /\ last.msg.end_time = None
    /\ last.info.sender # last.msg.arbiter
    /\ last.info.sender # last.msg.recipient
    /\ last.msg.arbiter # last.msg.recipient
    /\ Unwrap(config).source = last.info.sender

\* The bounds of the record against the block of the call, written out.
HeightReached == Record.end_height # None /\ last.env.height >= Unwrap(Record.end_height)
TimeReached == Record.end_time # None /\ last.env.time >= Unwrap(Record.end_time)

\* C13: expiry is inclusive and either bound is enough: an Approve by the
\* arbiter fails with Expired exactly when the height has reached end_height
\* or the time has reached end_time, and a Refund by the arbiter succeeds
\* exactly then.
C13_InclusiveOrExpiry ==
    (IsExecute /\ ByArbiter) =>
        IF last.msg.type = "Approve"
        THEN /\ last.res.err.kind = "Expired" <=> (HeightReached \/ TimeReached)
             /\ last.res.ok <=> ~(HeightReached \/ TimeReached)
        ELSE /\ last.res.ok <=> (HeightReached \/ TimeReached)
             /\ last.res.err.kind = "NotExpired" <=> ~(HeightReached \/ TimeReached)

C13_Witness ==
    /\ IsRefund /\ ByArbiter /\ last.res.ok
    /\ Record.end_height # None /\ Record.end_time # None
    /\ last.env.height = Unwrap(Record.end_height)
    /\ last.env.time < Unwrap(Record.end_time)

\* A record, or an InstantiateMsg, without bounds.
NoBounds(r) == r.end_height = None /\ r.end_time = None

\* C14: an escrow without end_height and end_time never expires: at every
\* height and time its creation (parties well-formed) succeeds, every Refund
\* fails, with NotExpired for the arbiter, and emits no transfer, and every
\* Approve by the arbiter succeeds.
C14_NoBoundsNeverExpires ==
    /\ (IsInstantiate /\ MsgValid /\ NoBounds(last.msg)) => last.res.ok
    /\ (IsRefund /\ NoBounds(Record)) =>
          /\ ~last.res.ok
          /\ last.res.messages = <<>>
          /\ ByArbiter => last.res.err = NotExpired(None, None)
    /\ (IsApprove /\ NoBounds(Record) /\ ByArbiter) => last.res.ok

C14_Witness ==
    /\ IsRefund /\ NoBounds(Record) /\ ByArbiter
    /\ last.env = [height |-> MaxHeight, time |-> MaxTime]
    /\ last.res.err.kind = "NotExpired"
    /\ last.balance # NoFunds

\* C15: the Arbiter query returns the arbiter given to the instantiate that
\* succeeded, whatever calls came since, also after the account was emptied
\* by a release or a refund.
C15_QueryReturnsArbiter ==
    (last.op = "query" /\ created # None) =>
        /\ last.res.ok
        /\ last.res.arbiter = Some(Unwrap(created).msg.arbiter)

C15_Witness ==
    /\ last.op = "query" /\ created # None
    /\ drained = "refunded"
    /\ expired_seen
    /\ Unwrap(created).msg.arbiter # Unwrap(created).msg.recipient
    /\ last.res.arbiter = Some(Unwrap(created).msg.arbiter)

\* C16: there is no settled state: an Approve by the arbiter before expiry
\* succeeds with one transfer to recipient whatever the balance and whatever
\* was released before, for every quantity; on an empty account, without a
\* quantity, the transfer carries the empty balance.
C16_NoSettledState ==
    (IsApprove /\ ByArbiter /\ ~ExpiredAtCall) =>
        /\ last.res.ok
        /\ Len(last.res.messages) = 1
        /\ last.res.messages[1].to_address = Record.recipient
        /\ (last.msg.quantity = None /\ last.balance = NoFunds) =>
              last.res.messages[1].amount = <<>>
        /\ last.msg.quantity # None =>
              last.res.messages[1].amount = Unwrap(last.msg.quantity)

C16_Witness ==
    /\ IsApprove /\ ByArbiter /\ last.res.ok
    /\ drained = "released"
    /\ last.balance = NoFunds
    /\ last.msg.quantity = None
    /\ last.res.messages[1].amount = <<>>

\* C17: while no record is stored, every Approve, Refund and Arbiter query
\* fails with the load error of the storage, whoever calls and whatever the
\* block, and emits no transfer.
C17_UninitializedLoadError ==
    (last.op \in {"execute", "query"} /\ last.storage = None) =>
        /\ ~last.res.ok
        /\ last.res.err = Std("NotFound")
        /\ last.op = "execute" => last.res.messages = <<>>
        /\ balance = last.balance

C17_Witness ==
    /\ last.op = "execute" /\ last.storage = None
    /\ last.msg.type = "Refund"
    /\ last.env.height > 0
    /\ last.res.err = Std("NotFound")

\* Some caller's Approve, with some quantity, succeeds at block env; some
\* caller's Refund does.
ApproveCanSucceed(env) ==
    \E a \in Addrs, q \in Quantities :
        execute(config, balance, env, [sender |-> a], Approve(q)).ok
RefundCanSucceed(env) ==
    \E b \in Addrs : execute(config, balance, env, [sender |-> b], Refund).ok

\* C18: for every record, at no (height, time) do an Approve and a Refund
\* both succeed, whoever the callers and whatever the quantity: between two
\* calls, at the block the host is at, not both can succeed.
C18_ApproveRefundExclusive ==
    (last = Idle /\ config # None) =>
        ~(ApproveCanSucceed(now) /\ RefundCanSucceed(now))

C18_Witness ==
    /\ last = Idle /\ config # None
    /\ Unwrap(config).end_height # None
    /\ now.height = Unwrap(Unwrap(config).end_height)
    /\ RefundCanSucceed(now)
    /\ ~ApproveCanSucceed(now)
    /\ expired_seen

\* C19: with height and time never decreasing, once a call has observed the
\* record as expired (an Approve failed with Expired, a Refund succeeded) no
\* Approve succeeds any more, so every transfer to recipient is emitted before
\* every transfer to source.
C19_NoApproveAfterExpiry ==
    (IsApprove /\ last.res.ok) => ~expired_seen

C19_Witness ==
    /\ IsApprove /\ ByArbiter
    /\ expired_seen /\ drained = "refunded"
    /\ last.res.err.kind = "Expired"

====
